---- MODULE Spec2Model ----
(***************************************************************************)
(* Model of srf2025_pdf_extractor.py: the SRF2025PDFExtractor class, its   *)
(* page parser (parse_contribution_page), the session classifier           *)
(* (get_session_name), the page loop (extract_contributions) and the       *)
(* grouping done by save_data.                                             *)
(*                                                                         *)
(* Page text is a TLA+ string; the regular expressions of the source are   *)
(* written out as matchers over the characters of that string.             *)
(***************************************************************************)
EXTENDS Integers, Sequences, FiniteSets, TLC

VARIABLES
    doc,            \* the document behind pdf_path: a sequence of pages
    contributions,  \* self.contributions
    pc,             \* position of the extractor: "idle", "loop", "done"
    page_num,       \* loop variable of extract_contributions (0-indexed)
    opened,         \* whether the current/last call opened the source
    ret,            \* value returned by the last extract_contributions call
    calls,          \* number of extract_contributions calls started
    before,         \* self.contributions when the current call started
    text,           \* argument of the last direct parse_contribution_page call
    pnum,           \* page number argument of that call
    result,         \* its return value
    probe,          \* results seen so far for the input <<text, pnum>>
    code,           \* argument of the last get_session_name call
    name,           \* its return value
    shared,         \* worker pool: the shared output sequence
    todo,           \* worker pool: 0-indexed pages not yet parsed
    resorted,       \* worker pool: the re-sorted sequence, None before the re-sort
    saved           \* sessions index written by save_data (or NotSaved)

vars == <<doc, contributions, pc, page_num, opened, ret, calls, before,
          text, pnum, result, probe, code, name, shared, todo, resorted, saved>>

-----------------------------------------------------------------------------
(* Strings: characters, classes, str.lower, str.strip, str.split           *)

Ch(s, i) == SubSeq(s, i, i)

UpperLetters == "ABCDEFGHIJKLMNOPQRSTUVWXYZ"
LowerLetters == "abcdefghijklmnopqrstuvwxyz"

Upper == {Ch(UpperLetters, i) : i \in 1..Len(UpperLetters)}
Lower == {Ch(LowerLetters, i) : i \in 1..Len(LowerLetters)}
Digit == {"0", "1", "2", "3", "4", "5", "6", "7", "8", "9"}

\* \w and \s of Python's re for str patterns, over ASCII
Word  == Upper \cup Lower \cup Digit \cup {"_"}
Space == {" ", "\t", "\n", "\r", "\f"}

LowerOf == [c \in Upper |->
              Ch(LowerLetters, CHOOSE i \in 1..Len(UpperLetters) : Ch(UpperLetters, i) = c)]

RECURSIVE lower(_)
lower(s) ==
    IF s = "" THEN ""
    ELSE LET c == Ch(s, 1)
         IN  (IF c \in Upper THEN LowerOf[c] ELSE c) \o lower(SubSeq(s, 2, Len(s)))

Min(S) == CHOOSE x \in S : \A y \in S : x <= y
Max(S) == CHOOSE x \in S : \A y \in S : x >= y

\* p occurs in s at position i
At(s, i, p) == i >= 1 /\ i + Len(p) - 1 <= Len(s) /\ SubSeq(s, i, i + Len(p) - 1) = p

startswith(s, p) == At(s, 1, p)

\* least position >= i where p occurs in s, or 0
Find(s, p, i) ==
    LET c == {j \in i..(Len(s) - Len(p) + 1) : SubSeq(s, j, j + Len(p) - 1) = p}
    IN  IF c = {} THEN 0 ELSE Min(c)

Contains(s, p) == Find(s, p, 1) # 0

\* first position >= i whose character is not in class C (Len(s)+1 if none)
RECURSIVE RunEnd(_, _, _)
RunEnd(s, i, C) ==
    IF i <= Len(s) /\ Ch(s, i) \in C THEN RunEnd(s, i + 1, C) ELSE i

\* last position <= i whose character is not in class C (0 if none)
RECURSIVE RunStart(_, _, _)
RunStart(s, i, C) ==
    IF i >= 1 /\ Ch(s, i) \in C THEN RunStart(s, i - 1, C) ELSE i

strip(s) ==
    LET a == RunEnd(s, 1, Space)
    IN  IF a > Len(s) THEN "" ELSE SubSeq(s, a, RunStart(s, Len(s), Space))

\* s[i..].split('\n')
RECURSIVE SplitFrom(_, _)
SplitFrom(s, i) ==
    LET j == Find(s, "\n", i)
    IN  IF j = 0 THEN <<SubSeq(s, i, Len(s))>>
        ELSE <<SubSeq(s, i, j - 1)>> \o SplitFrom(s, j + 1)

split(s) == SplitFrom(s, 1)

RECURSIVE join(_, _)
join(sep, ls) ==
    IF ls = <<>> THEN ""
    ELSE IF Len(ls) = 1 THEN ls[1]
    ELSE ls[1] \o sep \o join(sep, Tail(ls))

-----------------------------------------------------------------------------
(* Regular expressions.  A matcher takes a position and gives the position *)
(* after the match, 0 when there is no match; 0 propagates.                *)

Lit(s, i, p) == IF i # 0 /\ At(s, i, p) THEN i + Len(p) ELSE 0

\* C+ (greedy; every use is followed by a character outside C)
Run1(s, i, C) ==
    IF i = 0 THEN 0
    ELSE LET e == RunEnd(s, i, C) IN IF e > i THEN e ELSE 0

\* C*
Run0(s, i, C) == IF i = 0 THEN 0 ELSE RunEnd(s, i, C)

OneOf(s, i, C) == IF i # 0 /\ i <= Len(s) /\ Ch(s, i) \in C THEN i + 1 ELSE 0

\* \d{4}
FourDigits(s, i) == OneOf(s, OneOf(s, OneOf(s, OneOf(s, i, Digit), Digit), Digit), Digit)

\* \w+day,
WeekdayAt(s, i) ==
    LET e == Run1(s, i, Word)
    IN  IF e - i >= 4 /\ SubSeq(s, e - 3, e - 1) = "day" THEN Lit(s, e, ", ") ELSE 0

\* \w+day, \w+ \d+, \d{4}   anchored at i
DateHeadAt(s, i) ==
    FourDigits(s, Lit(s, Run1(s, Lit(s, Run1(s, WeekdayAt(s, i), Word), " "), Digit), ", "))

\* a position where a run of \w characters begins.  A match of \w+... that
\* begins inside a run also matches from the beginning of the run, so the
\* leftmost match of a search always begins at such a position.
WordStart(s, i) == Ch(s, i) \in Word /\ (i = 1 \/ Ch(s, i - 1) \notin Word)

\* re.search(r'\w+day, \w+ \d+, \d{4}', line)
DateLine(line) == \E i \in 1..Len(line) : WordStart(line, i) /\ DateHeadAt(line, i) # 0

\* \w+day, \w+ \d+, \d{4} \d+:\d+\s*[AP]M   anchored at i
DateTimeHeadAt(s, i) ==
    Lit(s, OneOf(s, Run0(s, Run1(s, Lit(s, Run1(s, Lit(s, DateHeadAt(s, i), " "),
           Digit), ":"), Digit), Space), {"A", "P"}), "M")

\* (\w+day, \w+ \d+, \d{4} \d+:\d+\s*[AP]M.*?)(?:\(|$)  anchored at i: the end
\* of group 1 (position after it), 0 when there is no match.  No flags: '.'
\* stops at a newline, '$' is the end of the text or just before a final newline.
DateTimeAt(s, i) ==
    LET m  == DateTimeHeadAt(s, i)
        nl == LET j == Find(s, "\n", m) IN IF j = 0 THEN Len(s) + 1 ELSE j
        pa == Find(s, "(", m)
    IN  IF m = 0 THEN 0
        ELSE IF pa # 0 /\ pa < nl THEN pa
        ELSE IF nl >= Len(s) THEN nl
        ELSE 0

\* datetime_match.group(1).strip(), "" when the search fails
DateTimeSearch(s) ==
    LET c == {i \in 1..Len(s) : WordStart(s, i) /\ DateTimeAt(s, i) # 0}
    IN  IF c = {} THEN "" ELSE strip(SubSeq(s, Min(c), DateTimeAt(s, Min(c)) - 1))

\* re.search of a label followed by a pattern takes the first position where
\* the label occurs and the pattern matches right after it.

\* \s*(\d+)
IdRest(s, i) == Run1(s, Run0(s, i, Space), Digit)

\* re.search(r'Contribution ID:\s*(\d+)', text).group(1), "" when no match
IdSearch(s) ==
    LET label == "Contribution ID:"
        c == {k \in 1..Len(s) : At(s, k, label) /\ IdRest(s, k + Len(label)) # 0}
        j == IF c = {} THEN 0 ELSE Min(c)
        g == Run0(s, j + Len(label), Space)
    IN  IF j = 0 THEN "" ELSE SubSeq(s, g, IdRest(s, j + Len(label)) - 1)

\* \s*([A-Z]+\d+)
CodeRest(s, i) == Run1(s, Run1(s, Run0(s, i, Space), Upper), Digit)

\* re.search(r'Contribution code:\s*([A-Z]+\d+)', text).group(1), "" when no match
CodeSearch(s) ==
    LET label == "Contribution code:"
        c == {k \in 1..Len(s) : At(s, k, label) /\ CodeRest(s, k + Len(label)) # 0}
        j == IF c = {} THEN 0 ELSE Min(c)
        g == Run0(s, j + Len(label), Space)
    IN  IF j = 0 THEN "" ELSE SubSeq(s, g, CodeRest(s, j + Len(label)) - 1)

\* re.search(r'Type:\s*([^\n]+)', text).group(1).strip(), "" when no match.
\* When only whitespace follows the label, group 1 is at most one blank
\* given back by \s*, which strips to "".
TypeSearch(s) ==
    LET label == "Type:"
        j == Find(s, label, 1)
        g == Run0(s, j + Len(label), Space)
        nl == LET k == Find(s, "\n", g) IN IF k = 0 THEN Len(s) + 1 ELSE k
    IN  IF j = 0 \/ g > Len(s) THEN "" ELSE strip(SubSeq(s, g, nl - 1))

\* footnotes found only where the line scan stops: at a line that begins
\* with the marker
FootnotesSearch_LineStart(s) ==
    LET label == "Footnotes"
        j == IF At(s, 1, label) THEN 1
             ELSE LET n == Find(s, "\n" \o label, 1) IN IF n = 0 THEN 0 ELSE n + 1
        k == Find(s, "Contribution", j + Len(label))
    IN  IF j = 0 THEN ""
        ELSE strip(SubSeq(s, j + Len(label), IF k = 0 THEN Len(s) ELSE k - 1))

\* re.search(r'Footnotes(.*?)(?=Contribution|$)', text, re.DOTALL).group(1).strip()
FootnotesSearch(s) ==
    LET label == "Footnotes"
        j == Find(s, label, 1)
        k == Find(s, "Contribution", j + Len(label))
    IN  IF j = 0 THEN ""
        ELSE strip(SubSeq(s, j + Len(label), IF k = 0 THEN Len(s) ELSE k - 1))

-----------------------------------------------------------------------------
(* Optional values: None is the empty sequence, a value v is <<v>>          *)

None == <<>>
Some(v) == <<v>>

-----------------------------------------------------------------------------
(* get_session_name                                                        *)

session_map ==
    [ MOA |-> "Monday Opening and Awards", MOB |-> "Monday Oral Session B",
      MOC |-> "Monday Oral Session C", MOD |-> "Monday Oral Session D",
      MOE |-> "Monday Oral Session E", MOF |-> "Monday Oral Session F",
      MOG |-> "Monday Oral Session G", MOH |-> "Monday Oral Session H",
      MOI |-> "Monday Oral Session I", MOJ |-> "Monday Oral Session J",
      MOK |-> "Monday Oral Session K", MOL |-> "Monday Oral Session L",
      MOM |-> "Monday Oral Session M", MON |-> "Monday Oral Session N",
      MOO |-> "Monday Oral Session O", MOP |-> "Monday Poster Session",
      TUA |-> "Tuesday Oral Session A", TUB |-> "Tuesday Oral Session B",
      TUC |-> "Tuesday Oral Session C", TUD |-> "Tuesday Oral Session D",
      TUE |-> "Tuesday Oral Session E", TUF |-> "Tuesday Oral Session F",
      TUG |-> "Tuesday Oral Session G", TUH |-> "Tuesday Oral Session H",
      TUI |-> "Tuesday Oral Session I", TUJ |-> "Tuesday Oral Session J",
      TUK |-> "Tuesday Oral Session K", TUL |-> "Tuesday Oral Session L",
      TUM |-> "Tuesday Oral Session M", TUN |-> "Tuesday Oral Session N",
      TUO |-> "Tuesday Oral Session O", TUP |-> "Tuesday Poster Session",
      WEA |-> "Wednesday Oral Session A", WEB |-> "Wednesday Oral Session B",
      WEC |-> "Wednesday Oral Session C", WED |-> "Wednesday Oral Session D",
      WEE |-> "Wednesday Oral Session E", WEF |-> "Wednesday Oral Session F",
      WEG |-> "Wednesday Oral Session G", WEH |-> "Wednesday Oral Session H",
      WEI |-> "Wednesday Oral Session I", WEJ |-> "Wednesday Oral Session J",
      WEK |-> "Wednesday Oral Session K", WEL |-> "Wednesday Oral Session L",
      WEM |-> "Wednesday Oral Session M", WEN |-> "Wednesday Oral Session N",
      WEO |-> "Wednesday Oral Session O", WEP |-> "Wednesday Poster Session",
      THA |-> "Thursday Oral Session A", THB |-> "Thursday Oral Session B",
      THC |-> "Thursday Oral Session C", THD |-> "Thursday Oral Session D",
      THE |-> "Thursday Oral Session E", THF |-> "Thursday Oral Session F",
      THG |-> "Thursday Oral Session G", THH |-> "Thursday Oral Session H",
      THI |-> "Thursday Oral Session I", THJ |-> "Thursday Oral Session J",
      THK |-> "Thursday Oral Session K", THL |-> "Thursday Oral Session L",
      THM |-> "Thursday Oral Session M", THN |-> "Thursday Oral Session N",
      THO |-> "Thursday Oral Session O", THP |-> "Thursday Poster Session",
      FRA |-> "Friday Oral Session A", FRB |-> "Friday Oral Session B",
      FRC |-> "Friday Oral Session C", FRD |-> "Friday Oral Session D",
      FRE |-> "Friday Oral Session E", FRF |-> "Friday Oral Session F",
      FRG |-> "Friday Oral Session G", FRH |-> "Friday Oral Session H",
      FRI |-> "Friday Oral Session I", FRJ |-> "Friday Oral Session J",
      FRK |-> "Friday Oral Session K", FRL |-> "Friday Oral Session L",
      FRM |-> "Friday Oral Session M", FRN |-> "Friday Oral Session N",
      FRO |-> "Friday Oral Session O", FRP |-> "Friday Poster Session" ]

\* session_map.get(session_code, "")
get_session_name_EmptyDefault(session_code) ==
    IF session_code \in DOMAIN session_map THEN session_map[session_code] ELSE ""

get_session_name(session_code) ==
    IF session_code \in DOMAIN session_map
    THEN session_map[session_code]
    ELSE "Session " \o session_code

-----------------------------------------------------------------------------
(* parse_contribution_page                                                 *)

\* lines = [line.strip() for line in text.split('\n') if line.strip()]
Lines(t) ==
    LET parts == split(t)
    IN  SelectSeq([k \in 1..Len(parts) |-> strip(parts[k])], LAMBDA l : l # "")

HeaderMarkers ==
    {"contribution id:", "contribution code:", "type:", "srf2025", "report of contributions"}

\* any(skip in line.lower() for skip in [...])
HeaderLine(line) == LET l == lower(line) IN \E skip \in HeaderMarkers : Contains(l, skip)

\* line.lower().startswith(('footnotes', 'funding'))
StopLine(line) ==
    LET l == lower(line) IN startswith(l, "footnotes") \/ startswith(l, "funding")

ScanInit ==
    [title |-> "", title_found |-> FALSE, abstract_start |-> FALSE,
     abstract_lines |-> <<>>, stop |-> FALSE]

\* ScanLine without the title_found test: a later qualifying line replaces
\* the title
ScanLine_Retitle(st, line) ==
    IF HeaderLine(line) THEN st
    ELSE IF DateLine(line) THEN st
    ELSE IF Len(line) > 10 /\ ~startswith(line, "http")
    THEN [st EXCEPT !.title = line, !.title_found = TRUE]
    ELSE st

\* one iteration of the loop over lines; stop is the break
ScanLine(st, line) ==
    IF HeaderLine(line) THEN st
    ELSE IF DateLine(line) THEN st
    ELSE IF ~st.title_found /\ Len(line) > 10 /\ ~startswith(line, "http")
    THEN [st EXCEPT !.title = line, !.title_found = TRUE]
    ELSE IF st.title_found /\ ~st.abstract_start
    THEN IF StopLine(line) THEN [st EXCEPT !.stop = TRUE]
         ELSE IF Len(line) > 20
         THEN [st EXCEPT !.abstract_lines = Append(@, line), !.abstract_start = TRUE]
         ELSE IF st.abstract_start /\ Len(line) > 5
         THEN [st EXCEPT !.abstract_lines = Append(@, line)]
         ELSE st
    ELSE st

\* for i, line in enumerate(lines): ...
RECURSIVE Scan(_, _, _)
Scan(lines, i, st) ==
    IF i > Len(lines) \/ st.stop THEN st
    ELSE Scan(lines, i + 1, ScanLine(st, lines[i]))

\* SessionCode without the length test: contribution_code[:3] of any code
SessionCode_NoLengthCheck(contribution_code) ==
    IF contribution_code = "" THEN ""
    ELSE SubSeq(contribution_code, 1, Min({3, Len(contribution_code)}))

\* the session fields derived from the contribution code
SessionCode(contribution_code) ==
    IF contribution_code # "" /\ Len(contribution_code) >= 3
    THEN SubSeq(contribution_code, 1, 3)
    ELSE ""

SessionOf(contribution_code) ==
    IF contribution_code # "" /\ Len(contribution_code) >= 3
    THEN get_session_name(SubSeq(contribution_code, 1, 3))
    ELSE ""

\* the dictionary filled in by the try block, for a text that is a string
Fields(t, pn) ==
    LET st == Scan(Lines(t), 1, ScanInit)
        contribution_code == CodeSearch(t)
    IN  [contribution_id   |-> IdSearch(t),
         contribution_code |-> contribution_code,
         type              |-> TypeSearch(t),
         title             |-> st.title,
         date_time         |-> DateTimeSearch(t),
         abstract          |-> join(" ", st.abstract_lines),
         footnotes         |-> FootnotesSearch(t),
         session           |-> SessionOf(contribution_code),
         session_code      |-> SessionCode(contribution_code),
         page_number       |-> pn]

\* the gate testing the contribution code alone
Gate_CodeOnly(contribution) ==
    IF contribution.contribution_code # "" THEN Some(contribution) ELSE None

\* the validity gate: contribution['contribution_code'] and contribution['title']
Gate(contribution) ==
    IF contribution.contribution_code # "" /\ contribution.title # ""
    THEN Some(contribution)
    ELSE None

\* a parser that remembers the previous page: a page without a contribution
\* code inherits the code and session of the last collected record
parse_contribution_page_Stateful(self, t, pn) ==
    LET f == Fields(t[1], pn)
        g == IF f.contribution_code = "" /\ self # <<>>
             THEN [f EXCEPT !.contribution_code = self[Len(self)].contribution_code,
                            !.session_code = self[Len(self)].session_code,
                            !.session = self[Len(self)].session]
             ELSE f
    IN  [ret |-> IF t = None THEN None ELSE Gate(g),
         contributions |-> self]

\* parse_contribution_page(self, text, page_num): text is an optional string
\* (text = None makes text.split raise inside the try block, which returns
\* None); self is the extractor's collected sequence.  The value is the
\* returned optional record and the collected sequence after the call.
parse_contribution_page(self, t, pn) ==
    [ret |-> IF t = None THEN None ELSE Gate(Fields(t[1], pn)),
     contributions |-> self]

-----------------------------------------------------------------------------
(* Inputs of the page parser: a header block followed by at most MaxBody   *)
(* body lines, joined by newlines                                          *)

MaxBody == 3

Headers ==
    { "",
      "Contribution ID: 42\nContribution code: TUB003\nType: Oral Presentation",
      "Contribution code: MOA007\nMonday, June 9, 2025 10:00 AM (20 min)",
      "Contribution code: A1" }

BodyLines ==
    { "Cavity quality factor",
      "  Q factor data ",
      "Intro",
      "https://indico.example/e/1",
      "Tuesday, June 10, 2025 09:30 AM",
      "Footnotes",
      "Funding type: DOE" }

Bodies == UNION {[1..n -> BodyLines] : n \in 0..MaxBody}

PageText(h, b) == join("\n", (IF h = "" THEN <<>> ELSE <<h>>) \o b)

Texts == {PageText(h, b) : h \in Headers, b \in Bodies}

\* the output directory before save_data has written the index
NotSaved == None

\* what a call of parse_contribution_page showed: the value returned and
\* whether the collected sequence self was left as it was, and whether self
\* held records at the call
Seen(out, self) ==
    [ret |-> out.ret, kept |-> out.contributions = self, had |-> self # <<>>]

\* the extractor after __init__
Fresh ==
    /\ contributions = <<>>
    /\ pc = "idle"
    /\ page_num = 0
    /\ opened = FALSE
    /\ ret = <<>>
    /\ calls = 0
    /\ before = <<>>
    /\ saved = NotSaved

NoProbe == text = None /\ pnum = 2 /\ result = None /\ probe = {}

NoClassify == code = "" /\ name = None

NoPool == shared = <<>> /\ todo = {} /\ resorted = None

-----------------------------------------------------------------------------
(* ParseSpec: one call of parse_contribution_page on a drawn page text     *)

ParseInit ==
    /\ doc = <<>>
    /\ Fresh
    /\ text \in {Some(t) : t \in Texts} \cup {None}
    /\ pnum = 2
    /\ result = None
    /\ probe = {}
    /\ NoClassify
    /\ NoPool

\* the effect of a direct call that gave out
ParseDone(out) ==
    /\ result' = out.ret
    /\ contributions' = out.contributions
    /\ probe' = probe \cup {Seen(out, contributions)}

\* a direct call parse_contribution_page(text, pnum) on the extractor
ParseCall ==
    /\ ParseDone(parse_contribution_page(contributions, text, pnum))
    /\ UNCHANGED <<doc, pc, page_num, opened, ret, calls, before, text, pnum,
                   code, name, shared, todo, resorted, saved>>

ParseNext == ParseCall

ParseSpec == ParseInit /\ [][ParseNext]_vars

-----------------------------------------------------------------------------
(* FootSpec: one call of parse_contribution_page on a page whose body      *)
(* holds the literals "Footnotes" and "Contribution"                       *)

MaxFoot == 3

FootLines ==
    { "Refer to Footnotes",
      "Footnotes",
      "1 DOE grant ",
      "Data in the Footnotes x",
      "Contribution note",
      "Cavity quality factor" }

FootBodies == UNION {[1..n -> FootLines] : n \in 0..MaxFoot}

FootTexts == {PageText("Contribution code: TUB003", b) : b \in FootBodies}

FootInit ==
    /\ doc = <<>>
    /\ Fresh
    /\ text \in {Some(t) : t \in FootTexts}
    /\ pnum = 2
    /\ result = None
    /\ probe = {}
    /\ NoClassify
    /\ NoPool

FootSpec == FootInit /\ [][ParseNext]_vars

-----------------------------------------------------------------------------
(* extract_contributions                                                   *)

MaxPages == 3
MaxCalls == 2

\* page texts of a document: two contribution pages, a page with a title but
\* no contribution code, a blank page
PageTexts ==
    { "Contribution code: TUB003\nCavity quality factor",
      "Contribution code: MOA007\n  Q factor data ",
      "Type: Poster\nCavity quality factor",
      " \n" }

\* a page: raises says that pdf_reader.pages[page_num] or page.extract_text()
\* raises, text is what extract_text() returns otherwise
Pages == {[raises |-> FALSE, text |-> t] : t \in PageTexts} \cup {[raises |-> TRUE, text |-> ""]}

Docs == UNION {[1..n -> Pages] : n \in 0..MaxPages}

\* lines 87-89: after contribution = self.parse_contribution_page(...), the
\* record is appended when there is one; out is what the call gave
Collect(self, out) ==
    [contributions |-> IF out.ret # None
                       THEN Append(out.contributions, out.ret[1])
                       ELSE out.contributions,
     aborted |-> FALSE,
     parsed  |-> Some(Seen(out, self))]

\* the loop body without its try/except: an exception leaves the loop and
\* reaches the outer handler
PageBody_NoTry(self, page, pn0) ==
    IF page.raises
    THEN [contributions |-> self, aborted |-> TRUE, parsed |-> None]
    ELSE IF strip(page.text) = ""
    THEN [contributions |-> self, aborted |-> FALSE, parsed |-> None]
    ELSE Collect(self, parse_contribution_page(self, Some(page.text), pn0 + 1))

\* the loop body passing the 0-based page_num as the page number
PageBody_ZeroBased(self, page, pn0) ==
    IF page.raises
    THEN [contributions |-> self, aborted |-> FALSE, parsed |-> None]
    ELSE IF strip(page.text) = ""
    THEN [contributions |-> self, aborted |-> FALSE, parsed |-> None]
    ELSE Collect(self, parse_contribution_page(self, Some(page.text), pn0))

\* the body of the loop over page_num (0-indexed): the collected sequence
\* after it, whether an exception left the loop, and what the call of
\* parse_contribution_page showed when there was one
PageBody(self, page, pn0) ==
    IF page.raises
    THEN [contributions |-> self, aborted |-> FALSE, parsed |-> None]
    ELSE IF strip(page.text) = ""
    THEN [contributions |-> self, aborted |-> FALSE, parsed |-> None]
    ELSE Collect(self, parse_contribution_page(self, Some(page.text), pn0 + 1))

\* the outer handler returning what was collected instead of []
OpenFailure_ReturnCollected(self) == self

\* except Exception at the outer level: return []
OpenFailure(self) == <<>>

\* a call that starts by emptying the collected sequence
OpenOk_Reset ==
    /\ pc \in {"idle", "done"}
    /\ calls < MaxCalls
    /\ calls' = calls + 1
    /\ pc' = "loop"
    /\ page_num' = 1
    /\ opened' = TRUE
    /\ before' = contributions
    /\ contributions' = <<>>
    /\ UNCHANGED <<doc, ret, text, pnum, result, probe, code, name,
                   shared, todo, resorted, saved>>

\* extract_contributions is called and the source opens
OpenOk ==
    /\ pc \in {"idle", "done"}
    /\ calls < MaxCalls
    /\ calls' = calls + 1
    /\ pc' = "loop"
    /\ page_num' = 1
    /\ opened' = TRUE
    /\ before' = contributions
    /\ UNCHANGED <<doc, contributions, ret, text, pnum, result, probe, code, name,
                   shared, todo, resorted, saved>>

\* extract_contributions is called and open/PdfReader/len(pages) raises
OpenFail ==
    /\ pc \in {"idle", "done"}
    /\ calls < MaxCalls
    /\ calls' = calls + 1
    /\ pc' = "done"
    /\ opened' = FALSE
    /\ before' = contributions
    /\ ret' = OpenFailure(contributions)
    /\ UNCHANGED <<doc, contributions, page_num, text, pnum, result, probe, code, name,
                   shared, todo, resorted, saved>>

\* the effect of one iteration whose body gave out
PageDone(out) ==
    /\ contributions' = out.contributions
    /\ pc' = IF out.aborted THEN "done" ELSE "loop"
    /\ ret' = IF out.aborted THEN OpenFailure(out.contributions) ELSE ret
    /\ page_num' = IF out.aborted THEN page_num ELSE page_num + 1
    /\ probe' = IF out.parsed # None /\ text = Some(doc[page_num + 1].text)
                   /\ pnum = page_num + 1
                THEN probe \cup {out.parsed[1]}
                ELSE probe

\* one iteration of the loop over range(1, total_pages)
PageStep ==
    /\ pc = "loop"
    /\ page_num < Len(doc)
    /\ PageDone(PageBody(contributions, doc[page_num + 1], page_num))
    /\ UNCHANGED <<doc, opened, calls, before, text, pnum, result, code, name,
                   shared, todo, resorted, saved>>

\* the loop is over: return self.contributions
Return ==
    /\ pc = "loop"
    /\ page_num >= Len(doc)
    /\ pc' = "done"
    /\ ret' = contributions
    /\ UNCHANGED <<doc, contributions, page_num, opened, calls, before, text, pnum,
                   result, probe, code, name, shared, todo, resorted, saved>>

Init ==
    /\ doc \in Docs
    /\ Fresh
    /\ NoProbe
    /\ NoClassify
    /\ NoPool

Next == OpenOk \/ OpenFail \/ PageStep \/ Return

Spec == Init /\ [][Next]_vars

-----------------------------------------------------------------------------
(* save_data: the sessions index written to SRF2025_Complete_Index.json    *)

\* session_code in sessions
InSessions(sessions, session_code) ==
    \E g \in 1..Len(sessions) : sessions[g].session_info.id = session_code

\* a new entry for the session of contrib
NewSession(contrib) ==
    [session_info |-> [id     |-> contrib.session_code,
                       name   |-> contrib.session,
                       prefix |-> contrib.session_code],
     papers |-> <<>>]

\* the loop body without `if session_code not in sessions`: the entry is made
\* anew for every record and its papers start over
AddPaper_Reset(sessions, contrib) ==
    LET known == IF InSessions(sessions, contrib.session_code) THEN sessions
                 ELSE Append(sessions, NewSession(contrib))
    IN  [g \in 1..Len(known) |->
            IF known[g].session_info.id = contrib.session_code
            THEN [NewSession(contrib) EXCEPT !.papers = <<contrib>>]
            ELSE known[g]]

\* one iteration of `for contrib in self.contributions`; sessions is the
\* dict in insertion order
AddPaper(sessions, contrib) ==
    LET known == IF InSessions(sessions, contrib.session_code) THEN sessions
                 ELSE Append(sessions, NewSession(contrib))
    IN  [g \in 1..Len(known) |->
            IF known[g].session_info.id = contrib.session_code
            THEN [known[g] EXCEPT !.papers = Append(@, contrib)]
            ELSE known[g]]

\* all_sessions_data = list(sessions.values()) after the loop
RECURSIVE Sessions(_, _, _)
Sessions(self, i, sessions) ==
    IF i > Len(self) THEN sessions
    ELSE Sessions(self, i + 1, AddPaper(sessions, self[i]))

\* what json.dump writes, the extraction time and the source name left out
IndexOf(self, all_sessions_data) ==
    [scrape_info |-> [total_contributions |-> Len(self),
                      sessions_processed  |-> Len(all_sessions_data)],
     sessions |-> all_sessions_data]

\* save_data: files is the index on disk before the call, the result the
\* index on disk after it
save_data(self, files) ==
    IF self = <<>> THEN files ELSE Some(IndexOf(self, Sessions(self, 1, <<>>)))

\* save_data is called between two calls of extract_contributions
SaveData ==
    /\ pc \in {"idle", "done"}
    /\ saved' = save_data(contributions, saved)
    /\ UNCHANGED <<doc, contributions, pc, page_num, opened, ret, calls, before,
                   text, pnum, result, probe, code, name, shared, todo, resorted>>

SaveNext == OpenOk \/ OpenFail \/ PageStep \/ Return \/ SaveData

SaveSpec == Init /\ [][SaveNext]_vars

-----------------------------------------------------------------------------
(* PureSpec: one run of extract_contributions, with direct calls of        *)
(* parse_contribution_page on a drawn input at any point of the run        *)

ProbeTexts ==
    {Some("Contribution code: TUB003\nCavity quality factor"),
     Some("Type: Poster\nCavity quality factor"),
     None}

\* documents made of the probed page texts and of pages that raise
PureDocs ==
    LET PurePages == {pg \in Pages : pg.raises \/ Some(pg.text) \in ProbeTexts}
    IN  UNION {[1..n -> PurePages] : n \in 0..MaxPages}

PureInit ==
    /\ doc \in PureDocs
    /\ Fresh
    /\ text \in ProbeTexts
    /\ pnum = 2
    /\ result = None
    /\ probe = {}
    /\ NoClassify
    /\ NoPool

\* the first call of extract_contributions on the extractor
FirstCall == calls = 0 /\ OpenOk

PureNext == FirstCall \/ PageStep \/ Return \/ ParseCall

PureSpec == PureInit /\ [][PureNext]_vars

-----------------------------------------------------------------------------
(* ParSpec: the sequential run of extract_contributions, then a worker     *)
(* pool that parses the same pages in any order, appends to a shared       *)
(* sequence and re-sorts it by page_number.  The pool shares no variable   *)
(* with the sequential run, so it is started after it.                     *)

RECURSIVE InsertByPage(_, _)
InsertByPage(r, sq) ==
    IF sq = <<>> THEN <<r>>
    ELSE IF r.page_number < Head(sq).page_number THEN <<r>> \o sq
    ELSE <<Head(sq)>> \o InsertByPage(r, Tail(sq))

\* stable sort by page_number
RECURSIVE SortByPage(_)
SortByPage(sq) ==
    IF sq = <<>> THEN <<>>
    ELSE InsertByPage(sq[Len(sq)], SortByPage(SubSeq(sq, 1, Len(sq) - 1)))

ParInit ==
    /\ doc \in Docs
    /\ Fresh
    /\ NoProbe
    /\ NoClassify
    /\ shared = <<>>
    /\ todo = 1..(Len(doc) - 1)
    /\ resorted = None

\* a worker takes the 0-indexed page p and runs the loop body on it
Worker(p) ==
    /\ pc = "done"
    /\ p \in todo
    /\ shared' = PageBody(shared, doc[p + 1], p).contributions
    /\ todo' = todo \ {p}
    /\ UNCHANGED <<doc, contributions, pc, page_num, opened, ret, calls, before,
                   text, pnum, result, probe, code, name, resorted, saved>>

\* every page is parsed: re-sort by page_number
Resort ==
    /\ pc = "done"
    /\ todo = {}
    /\ resorted = None
    /\ resorted' = Some(SortByPage(shared))
    /\ UNCHANGED <<doc, contributions, pc, page_num, opened, ret, calls, before,
                   text, pnum, result, probe, code, name, shared, todo, saved>>

ParNext == FirstCall \/ PageStep \/ Return \/ (\E p \in todo : Worker(p)) \/ Resort

ParSpec == ParInit /\ [][ParNext]_vars

-----------------------------------------------------------------------------
(* ClassifySpec: one call of get_session_name on a drawn string            *)

MaxCodeLen == 3

CodeAlphabet == {"M", "O", "A", "T", "U", "B", "Z", "m"}

RECURSIVE CodesOfLen(_)
CodesOfLen(n) ==
    IF n = 0 THEN {""} ELSE {c \o a : c \in CodesOfLen(n - 1), a \in CodeAlphabet}

Codes == UNION {CodesOfLen(n) : n \in 0..MaxCodeLen}

ClassifyInit ==
    /\ doc = <<>>
    /\ Fresh
    /\ NoProbe
    /\ NoPool
    /\ code \in Codes
    /\ name = None

Classify ==
    /\ name' = Some(get_session_name(code))
    /\ UNCHANGED <<doc, contributions, pc, page_num, opened, ret, calls, before,
                   text, pnum, result, probe, code, shared, todo, resorted, saved>>

ClassifyNext == Classify

ClassifySpec == ClassifyInit /\ [][ClassifyNext]_vars

-----------------------------------------------------------------------------
(* Properties of parse_contribution_page, checked under ParseSpec          *)

Called == probe # {}

ScanOf(t) == Scan(Lines(t), 1, ScanInit)

\* a line that can become the title
Qualifies(line) ==
    /\ ~HeaderLine(line)
    /\ ~DateLine(line)
    /\ Len(line) > 10
    /\ ~startswith(line, "http")

\* the positions in the line list ls of the lines that qualify
QualifyingIn(ls) == {k \in 1..Len(ls) : Qualifies(ls[k])}

QualifyingLines(t) == QualifyingIn(Lines(t))

\* C1 for a page text t whose extracted code and title are c and ti
GateHolds(t, c, ti) ==
    /\ (result # None) <=> (c # "" /\ ti # "")
    /\ result # None => result[1].contribution_code # "" /\ result[1].title # ""
    /\ (c # "" /\ QualifyingLines(t) = {}) => result = None

\* C1: parse_contribution_page returns a record if and only if the extracted
\* contribution_code and title are both non-empty; a returned record has both
\* non-empty; a valid code with no qualifying title line gives None; no other
\* field decides.
C1_ValidityGate ==
    Called =>
        IF text = None THEN result = None
        ELSE GateHolds(text[1], CodeSearch(text[1]), ScanOf(text[1]).title)

\* a record is returned although every other field is empty
C1_Witness ==
    /\ Called
    /\ result # None
    /\ result[1].contribution_id = ""
    /\ result[1].type = ""
    /\ result[1].date_time = ""
    /\ result[1].abstract = ""
    /\ result[1].footnotes = ""
    /\ result[1].session = ""

\* the line scan as C2 describes it: after the title, a line starting with
\* footnotes/funding ends the scan, the first line longer than 20 starts the
\* abstract, and once started every line longer than 5 is appended
DescribedScanLine(st, line) ==
    IF HeaderLine(line) THEN st
    ELSE IF DateLine(line) THEN st
    ELSE IF ~st.title_found /\ Len(line) > 10 /\ ~startswith(line, "http")
    THEN [st EXCEPT !.title = line, !.title_found = TRUE]
    ELSE IF ~st.title_found THEN st
    ELSE IF StopLine(line) THEN [st EXCEPT !.stop = TRUE]
    ELSE IF ~st.abstract_start /\ Len(line) > 20
    THEN [st EXCEPT !.abstract_lines = Append(@, line), !.abstract_start = TRUE]
    ELSE IF st.abstract_start /\ Len(line) > 5
    THEN [st EXCEPT !.abstract_lines = Append(@, line)]
    ELSE st

RECURSIVE DescribedScan(_, _, _)
DescribedScan(lines, i, st) ==
    IF i > Len(lines) \/ st.stop THEN st
    ELSE DescribedScan(lines, i + 1, DescribedScanLine(st, lines[i]))

\* C2: the abstract of a returned record is every line accumulated by the
\* described scan (first line longer than 20, then every line longer than 5,
\* up to a footnotes/funding line), joined with single spaces.
C2_AbstractAllLines ==
    (Called /\ result # None) =>
        result[1].abstract =
            join(" ", DescribedScan(Lines(text[1]), 1, ScanInit).abstract_lines)

\* C3 for the line list ls of a page whose extracted code is c
TitleHolds(ls, q, c) ==
    /\ result # None => q # {} /\ result[1].title = ls[Min(q)]
    /\ (q # {} /\ c # "") => result # None

\* C3: the title of a returned record is the first line, in order, that has no
\* header marker, does not match the date pattern, is longer than 10 and does
\* not start with "http"; with a code and such a line a record is returned.
C3_TitleFirstQualifying ==
    (Called /\ text # None) =>
        TitleHolds(Lines(text[1]), QualifyingLines(text[1]), CodeSearch(text[1]))

\* a line starting with "http" was passed over, the next qualifying line is
\* the title, and a later, different qualifying line did not replace it
PassedOver(ls, q) ==
    /\ q # {}
    /\ \E i \in 1..Len(ls) : i < Min(q) /\ startswith(ls[i], "http")
    /\ \E k \in q : k > Min(q) /\ ls[k] # ls[Min(q)]
    /\ result[1].title = ls[Min(q)]

C3_Witness ==
    /\ Called
    /\ result # None
    /\ PassedOver(Lines(text[1]), QualifyingLines(text[1]))

\* the positions of "<Weekday>day, <Month> <day>, <year> <hour>:<minute> <AM|PM>"
DateTimeStarts(t) == {i \in 1..Len(t) : WordStart(t, i) /\ DateTimeHeadAt(t, i) # 0}

\* date_time as C4 describes it: from the first occurrence up to a following
\* '(' when there is one, else to the end of the text
DescribedDateTime(t) ==
    LET i  == Min(DateTimeStarts(t))
        pa == Find(t, "(", DateTimeHeadAt(t, i))
    IN  strip(SubSeq(t, i, IF pa # 0 THEN pa - 1 ELSE Len(t)))

\* C4: for a page text that contains a date/time string, date_time is
\* non-empty and begins at the first occurrence, cut before a following '('
\* or else running to the end of the text.
C4_DateTimeFirstMatch ==
    (Called /\ result # None /\ DateTimeStarts(text[1]) # {}) =>
        /\ result[1].date_time # ""
        /\ result[1].date_time = DescribedDateTime(text[1])

\* C7: in a returned record, a contribution_code of at least 3 characters
\* gives session_code = its first 3 characters and session =
\* get_session_name(session_code); a shorter code gives both empty; MOA007
\* gives "MOA" and "Monday Opening and Awards".
C7_SessionFromCode ==
    (Called /\ result # None) =>
        LET r == result[1]
        IN  /\ Len(r.contribution_code) >= 3 =>
                   /\ r.session_code = SubSeq(r.contribution_code, 1, 3)
                   /\ r.session = get_session_name(r.session_code)
            /\ Len(r.contribution_code) < 3 =>
                   r.session_code = "" /\ r.session = ""
            /\ r.contribution_code = "MOA007" =>
                   r.session_code = "MOA" /\ r.session = "Monday Opening and Awards"

\* a record whose code is shorter than 3 characters was returned
C7_Witness ==
    /\ Called
    /\ result # None
    /\ Len(result[1].contribution_code) < 3
    /\ result[1].session_code = ""

-----------------------------------------------------------------------------
(* Properties of extract_contributions, checked under Spec                 *)

\* what the page at 1-based index p gives when it is parsed: None for a page
\* that raises, a blank page and a page the parser rejects
PageRecord(p) ==
    IF doc[p].raises \/ strip(doc[p].text) = "" THEN None
    ELSE parse_contribution_page(<<>>, Some(doc[p].text), p).ret

Returned(r) == \E k \in 1..Len(ret) : ret[k] = r

\* C5: when a call that opened the source has returned, it returned the
\* collected sequence (the run was not aborted), a page whose extraction
\* raised has no record in it, and every page after the first that parses to
\* a valid record has that record in it.
C5_PageFailureContained ==
    (pc = "done" /\ opened) =>
        /\ ret = contributions
        /\ \A p \in 2..Len(doc) :
               /\ doc[p].raises => \A k \in 1..Len(ret) : ret[k].page_number # p
               /\ PageRecord(p) # None => Returned(PageRecord(p)[1])

\* a page raised and a later page still gave its record
C5_Witness ==
    /\ pc = "done"
    /\ opened
    /\ \E p \in 2..Len(doc) : \E q \in 2..Len(doc) :
           /\ p < q
           /\ doc[p].raises
           /\ PageRecord(q) # None
           /\ Returned(PageRecord(q)[1])

\* C6: a call whose source could not be opened returns the empty sequence and
\* adds nothing to what the extractor had collected.
C6_SourceUnavailable ==
    (pc = "done" /\ ~opened) => (ret = <<>> /\ contributions = before)

\* the source could not be opened on a call made after records were collected
C6_Witness ==
    /\ pc = "done"
    /\ ~opened
    /\ ret = <<>>
    /\ contributions # <<>>

-----------------------------------------------------------------------------
(* Properties of get_session_name, checked under ClassifySpec              *)

\* C8: get_session_name gives a value for every string: the table's name for
\* a key of the table, "Session " followed by the string otherwise ("ZZZ"
\* gives "Session ZZZ"), and never the empty string.
C8_ClassifierTotal ==
    name # None =>
        /\ code \in DOMAIN session_map => name[1] = session_map[code]
        /\ code \notin DOMAIN session_map => name[1] = "Session " \o code
        /\ code = "ZZZ" => name[1] = "Session ZZZ"
        /\ name[1] # ""

\* the unknown code ZZZ was classified
C8_Witness == code = "ZZZ" /\ name = Some("Session ZZZ")

-----------------------------------------------------------------------------
(* Purity of parse_contribution_page, checked under PureSpec               *)

\* C9: every call of parse_contribution_page on the same text and page number
\* returned the same value, whatever the extractor had collected, and left the
\* collected sequence as it was.
C9_ParsePure ==
    \A a \in probe : a.kept /\ \A b \in probe : a.ret = b.ret

\* the same input gave a record both with nothing collected and with records
\* collected
C9_Witness ==
    \E a \in probe : \E b \in probe : ~a.had /\ b.had /\ a.ret # None /\ b.ret = a.ret

-----------------------------------------------------------------------------
(* Order independence, checked under ParSpec                               *)

\* C10: the records the workers appended in any order, re-sorted by
\* page_number, are the sequence the sequential run returned.
C10_ParallelEqualsSequential ==
    resorted # None => resorted[1] = ret

\* the workers appended out of page order and the re-sort gave the sequential
\* result
C10_Witness ==
    /\ resorted # None
    /\ Len(shared) >= 2
    /\ shared[1].page_number > shared[2].page_number
    /\ resorted[1] = ret

-----------------------------------------------------------------------------
(* Page order of a single run, checked under Spec                          *)

\* C11: at every point of the first run of extract_contributions on a fresh
\* extractor, every collected record carries the 1-based index of a page after
\* the first that the loop has already passed and is the record that page
\* parses to, page_number is strictly increasing along the sequence (so a page
\* gives at most one record and the first page gives none), and the sequence
\* returned is the collected one.
C11_PageOrder ==
    (calls = 1 /\ opened) =>
        /\ \A k \in 1..Len(contributions) :
               /\ contributions[k].page_number \in 2..Len(doc)
               /\ contributions[k].page_number <= page_num
               /\ PageRecord(contributions[k].page_number) = Some(contributions[k])
        /\ \A k \in 1..(Len(contributions) - 1) :
               contributions[k].page_number < contributions[k + 1].page_number
        /\ pc = "done" => ret = contributions

\* the first page holds a valid contribution, and the run returned the records
\* of pages 2 and 3 only
C11_Witness ==
    /\ calls = 1
    /\ opened
    /\ pc = "done"
    /\ Len(doc) = 3
    /\ ~doc[1].raises
    /\ parse_contribution_page(<<>>, Some(doc[1].text), 1).ret # None
    /\ Len(ret) = 2
    /\ ret[1].page_number = 2
    /\ ret[2].page_number = 3

-----------------------------------------------------------------------------
(* Footnotes, checked under FootSpec                                       *)

\* the positions of the literal "Footnotes" in t
FootnotesStarts(t) == {j \in 1..Len(t) : At(t, j, "Footnotes")}

\* the positions of the literal "Contribution" in t from position i on
ContributionStarts(t, i) == {k \in i..Len(t) : At(t, k, "Contribution")}

\* the text after the first "Footnotes" up to the next "Contribution" or the
\* end of t, trimmed; "" without a "Footnotes"
DescribedFootnotes(t) ==
    IF FootnotesStarts(t) = {} THEN ""
    ELSE LET from == Min(FootnotesStarts(t)) + Len("Footnotes")
             upto == IF ContributionStarts(t, from) = {} THEN Len(t)
                     ELSE Min(ContributionStarts(t, from)) - 1
         IN  strip(SubSeq(t, from, upto))

\* C12: the footnotes of a returned record are the text after the first
\* literal "Footnotes" of the whole page text up to the next literal
\* "Contribution" or the end, trimmed, and "" when the text has no
\* "Footnotes", whatever the line scan did with the line holding the marker.
C12_FootnotesFromWholeText ==
    (Called /\ result # None) => result[1].footnotes = DescribedFootnotes(text[1])

\* the line holding the marker was taken as the title, the footnotes start
\* inside that line and end before a later "Contribution"
C12_Witness ==
    /\ Called
    /\ result # None
    /\ result[1].title = "Refer to Footnotes"
    /\ result[1].footnotes = "1 DOE grant"
    /\ ContributionStarts(text[1], Min(FootnotesStarts(text[1])) + 1) # {}

-----------------------------------------------------------------------------
(* The region the abstract is built from, checked under ParseSpec          *)

\* the positions after the title line at tp of the lines that start with
\* "footnotes" or "funding"
StopsAfter(ls, tp) == {k \in (tp + 1)..Len(ls) : StopLine(ls[k])}

\* the positions the abstract may be built from: after the title line at tp,
\* before the first later line that starts with "footnotes" or "funding",
\* header-marker lines and date lines left out
AbstractRegion(ls, tp) ==
    LET end == IF StopsAfter(ls, tp) = {} THEN Len(ls) + 1 ELSE Min(StopsAfter(ls, tp))
    IN  {k \in (tp + 1)..(end - 1) : ~HeaderLine(ls[k]) /\ ~DateLine(ls[k])}

\* the lines of ls at the positions S, in order
RECURSIVE LinesAt(_, _, _)
LinesAt(ls, S, k) ==
    IF k > Len(ls) THEN <<>>
    ELSE (IF k \in S THEN <<ls[k]>> ELSE <<>>) \o LinesAt(ls, S, k + 1)

\* C13 for the line list ls whose title line is at position tp
RegionHolds(ls, tp, r) ==
    /\ r.title = ls[tp]
    /\ ~HeaderLine(r.title) /\ ~DateLine(r.title)
    /\ \E S \in SUBSET AbstractRegion(ls, tp) : r.abstract = join(" ", LinesAt(ls, S, 1))

\* C13: the abstract of a returned record is made only of lines strictly after
\* the title line and strictly before the first later line that starts with
\* "footnotes" or "funding" (any case); the title line, header-marker lines
\* and date lines are neither the title nor part of the abstract.
C13_AbstractRegion ==
    (Called /\ result # None) =>
        RegionHolds(Lines(text[1]), Min(QualifyingLines(text[1])), result[1])

-----------------------------------------------------------------------------
(* The sessions index, checked under SaveSpec                              *)

\* the records of self from position k on whose session_code is c, in order
RECURSIVE WithCode(_, _, _)
WithCode(self, c, k) ==
    IF k > Len(self) THEN <<>>
    ELSE (IF self[k].session_code = c THEN <<self[k]>> ELSE <<>>)
         \o WithCode(self, c, k + 1)

\* the position of the first record of self whose session_code is c
FirstWithCode(self, c) == Min({k \in 1..Len(self) : self[k].session_code = c})

\* the number of records in the groups g..Len(ss)
RECURSIVE PapersFrom(_, _)
PapersFrom(ss, g) ==
    IF g > Len(ss) THEN 0 ELSE Len(ss[g].papers) + PapersFrom(ss, g + 1)

\* the groups ss are the records self grouped by session_code
GroupedBy(ss, self) ==
    /\ \A k \in 1..Len(self) :
           /\ Cardinality({g \in 1..Len(ss) :
                  ss[g].session_info.id = self[k].session_code}) = 1
           /\ \A g \in 1..Len(ss) :
                  (\E j \in 1..Len(ss[g].papers) : ss[g].papers[j] = self[k])
                      <=> ss[g].session_info.id = self[k].session_code
    /\ PapersFrom(ss, 1) = Len(self)
    /\ \A g \in 1..Len(ss) :
           /\ ss[g].papers # <<>>
           /\ ss[g].papers = WithCode(self, ss[g].session_info.id, 1)
           /\ \A j \in 1..Len(ss[g].papers) :
                  ss[g].papers[j].session = ss[g].session_info.name
           /\ \A h \in 1..Len(ss) :
                  g < h => FirstWithCode(self, ss[g].session_info.id)
                             < FirstWithCode(self, ss[h].session_info.id)

\* C14: whenever the index on disk changes, it holds the collected records
\* grouped by session_code: every record is in exactly the group whose id is
\* its session_code, the group sizes add up to the number of records, groups
\* come in the order their session_code first appears, records keep their
\* order inside a group, and a group's name is the session of each of its
\* records; while nothing is collected the disk is left as it is.
C14_SessionsIndex ==
    [][ /\ saved' # saved =>
               /\ saved' # NotSaved
               /\ GroupedBy(saved'[1].sessions, contributions)
        /\ contributions = <<>> => saved' = saved ]_vars

\* two sessions, each with two records that the other session's records
\* separate in the collected sequence
C14_Witness ==
    /\ saved # NotSaved
    /\ Len(contributions) = 4
    /\ Len(saved[1].sessions) = 2
    /\ contributions[1].session_code # contributions[2].session_code
    /\ contributions[3].session_code = contributions[1].session_code
    /\ saved[1].sessions[1].papers = <<contributions[1], contributions[3]>>
    /\ saved[1].sessions[2].papers = <<contributions[2], contributions[4]>>

-----------------------------------------------------------------------------
(* The collected sequence across calls, checked under Spec                 *)

\* the records one run over the document gives, from the page at 1-based
\* index p on
RECURSIVE RecordsFrom(_)
RecordsFrom(p) ==
    IF p > Len(doc) THEN <<>> ELSE PageRecord(p) \o RecordsFrom(p + 1)

\* C15: every step leaves the collected sequence as it was or appends one
\* record to it; a call that read the source returns what was collected
\* before it followed by the records of this run, so that a second readable
\* call after a readable first one returns every valid page's record twice;
\* a call whose source cannot be opened returns the empty sequence and the
\* records collected before it stay in the extractor.
C15_AppendOnly ==
    [][ /\ \/ contributions' = contributions
           \/ /\ Len(contributions') = Len(contributions) + 1
              /\ SubSeq(contributions', 1, Len(contributions)) = contributions
        /\ (pc' = "done" /\ opened') =>
               /\ ret' = before' \o RecordsFrom(2)
               /\ contributions' = ret'
               /\ calls' = 2 => before' \in {<<>>, RecordsFrom(2)}
        /\ (pc' = "done" /\ ~opened') =>
               /\ ret' = <<>>
               /\ contributions' = contributions
               /\ contributions' = before' ]_vars

\* the second call read the source again and returned the records of two
\* pages twice
C15_Witness ==
    /\ calls = 2
    /\ pc = "done"
    /\ opened
    /\ Len(RecordsFrom(2)) = 2
    /\ before = RecordsFrom(2)
    /\ ret = RecordsFrom(2) \o RecordsFrom(2)
    /\ contributions = ret

====
